---------------------------- MODULE Spec2Model ----------------------------
(***************************************************************************)
(* bkgrep: the scan / extract / classify / deduplicate pipeline of         *)
(* src/src/scanner.rs.                                                     *)
(*                                                                         *)
(* The scanner thread (Scanner::scan_dirs) validates the roots, walks them *)
(* in order, accumulates accepted paths in book_batch and hands every full *)
(* batch (and the remainder of every root) to process_batch.  That call    *)
(* runs one closure per path on a rayon pool and returns when all of them  *)
(* have returned.  The closures share seen_books, an RwLock<HashMap>; each *)
(* lock()/unlock() pair of the closure is a pair of steps of one worker.   *)
(*                                                                         *)
(* Spec is the scan; FairSpec adds the scheduling of the closures.  Three  *)
(* functions are also applied on their own, to arguments drawn from small  *)
(* sets: SpecClassify (Scanner::is_english), SpecCreator                   *)
(* (unmangle_creator, on strings of characters) and SpecWalk (the filtered *)
(* walk of one root, on a small tree of named entries).                    *)
(***************************************************************************)
EXTENDS Integers, Sequences, FiniteSets, TLC

\* ----- bounds of the model -----
NumDirs == 2        \* roots given on the command line
MaxFiles == 3       \* accepted paths over the whole scan
BatchCap == 2       \* stands for the 10000 of scan_dirs (scaled down)
NumIds == 2         \* distinct fingerprints (values of BookMetadata::hash_md)
MaxNameLen == 4     \* characters of a creator string

Sizes == {500000, 700000}              \* values of fs::metadata(..).len()
DescLen == {50, 51}                    \* lengths of a present description
Descriptions == {{}} \cup {{n} : n \in DescLen}   \* Option<String>: {} is None, {n} a text of length n
PageCounts == {0, 2}                   \* values of doc.get_num_pages()
TextClasses == {"en", "foreign", "unclear"}

VARIABLES
    detector,     \* Scanner.detector: TRUE for Some(LanguageDetector), FALSE for None
    dirExists,    \* dirExists[d]: Path::new(dirs[d]).exists()
    spc,          \* position of the scanner thread in scan_dirs
    dirIdx,       \* index of the root being walked (for dir in &self.dirs)
    accepted,     \* every path pushed on book_batch so far, in traversal order
    book_batch,   \* the local Vec<String> of scan_dirs (each path with its root)
    dispatched,   \* the arguments of the calls of process_batch, in call order
    seen_books,   \* the HashMap<i64, Book> behind the RwLock
    lock,         \* the RwLock: the workers holding a read guard, the one holding the write guard
    w,            \* one record per closure invocation of process_batch, in dispatch order
    probe         \* a function of the scanner applied on its own: its argument and what
                  \* it returned (fn is "none" during a scan)

vars == <<detector, dirExists, spc, dirIdx, accepted, book_batch, dispatched,
          seen_books, lock, w, probe>>

NoOut == <<>>

\* ----- helpers on sequences -----
RECURSIVE Concat(_)
Concat(ss) == IF ss = <<>> THEN <<>> ELSE Head(ss) \o Concat(Tail(ss))

MaxOf(S) == CHOOSE x \in S : \A y \in S : y <= x

\* ----- the state of one closure invocation (one worker) -----
\* pc: "start"  before parse_epub                                   (l.103)
\*     "rd1"    about to take the read lock of l.110
\*     "chk"    holding it; contains_key, then the guard is dropped  (l.110)
\*     "wr1"    about to take the write lock of l.111
\*     "ins1"   holding it; insert, then the guard is dropped        (l.111)
\*     "rd2"    about to take the read lock of l.115
\*     "get"    holding it; get().clone(), drop, better_dup, println (l.116-122)
\*     "wr2"    about to take the write lock of l.120
\*     "ins2"   holding it; insert, then the guard is dropped        (l.120)
\*     "done"   the closure has returned
\*     "panicked" the closure unwound (an unwrap or gen_range panicked)
\* path: book_path; batch: the call of process_batch it belongs to;
\* parsed: what parse_epub returned ("none" before the call, "ok", "err");
\* classified: is_english was called; id, size: bm.id and new_bk.size (0 before
\* they exist); out: the line the closure has printed, <<tag, path>>
NewWorker(p, b) ==
    [path |-> p, batch |-> b, pc |-> "start", parsed |-> "none", classified |-> FALSE,
     id |-> 0, size |-> 0, out |-> NoOut]

InFlight == {"rd1", "chk", "wr1", "ins1", "rd2", "get", "wr2", "ins2"}

Workers == DOMAIN w

\* the workers of the call of process_batch that is running (the last one made)
BatchWorkers ==
    IF dispatched = <<>> THEN {}
    ELSE (Len(w) - Len(dispatched[Len(dispatched)]) + 1) .. Len(w)

Paths(batch) == [i \in DOMAIN batch |-> batch[i].path]

\* ----- Scanner::scan_dirs -----
Init ==
    /\ detector \in BOOLEAN
    /\ dirExists \in [1..NumDirs -> BOOLEAN]
    /\ spc = "validate"
    /\ dirIdx = 0
    /\ accepted = <<>>
    /\ book_batch = <<>>
    /\ dispatched = <<>>
    /\ seen_books = <<>>
    /\ lock = [readers |-> {}, writer |-> {}]
    /\ w = <<>>
    /\ probe = [fn |-> "none"]

\* faulty variant: only the first root is looked at before the walk starts
ValidateMut ==
    /\ spc = "validate"
    /\ IF ~dirExists[1]
       THEN spc' = "exit3" /\ dirIdx' = dirIdx
       ELSE spc' = "walk" /\ dirIdx' = 1
    /\ UNCHANGED <<probe, detector, dirExists, accepted, book_batch, dispatched,
                   seen_books, lock, w>>

\* l.56-61: every root must exist, else process::exit(3)
Validate ==
    /\ spc = "validate"
    /\ IF \E d \in 1..NumDirs : ~dirExists[d]
       THEN spc' = "exit3" /\ dirIdx' = dirIdx
       ELSE spc' = "walk" /\ dirIdx' = 1
    /\ UNCHANGED <<probe, detector, dirExists, accepted, book_batch, dispatched,
                   seen_books, lock, w>>

\* the call self.process_batch(&seen_books, &book_batch): par_iter starts one
\* closure per path
Dispatch(batch, at) ==
    /\ dispatched' = Append(dispatched, Paths(batch))
    /\ w' = w \o [i \in DOMAIN batch |-> NewWorker(batch[i].path, Len(dispatched) + 1)]
    /\ spc' = at

\* the path of the next accepted entry: WalkDir yields every entry of a root once
\* and the roots are taken to be disjoint, so the path is a new one
FreshPath == Len(accepted) + 1

\* faulty variant: the batch is handed over only once it has grown past the capacity
BatchFullMut(batch) == Len(batch) > BatchCap

BatchFull(batch) == Len(batch) % BatchCap = 0

\* l.73-83: the walker yields Ok(l), l a regular file whose path ends with ".epub"
WalkFile ==
    /\ spc = "walk"
    /\ Len(accepted) < MaxFiles
    /\ LET e == [path |-> FreshPath, root |-> dirIdx]
           nb == Append(book_batch, e)
       IN  /\ accepted' = Append(accepted, e)
           /\ book_batch' = nb
           /\ IF BatchFull(nb)
              THEN Dispatch(nb, "batch_full")
              ELSE UNCHANGED <<dispatched, w, spc>>
    /\ UNCHANGED <<probe, detector, dirExists, dirIdx, seen_books, lock>>

\* l.73-84: the walker yields Ok(l), l a directory or a file that is no .epub
WalkOther ==
    /\ spc = "walk"
    /\ UNCHANGED vars

\* faulty variant: the error path flushes the batch it holds before it exits
WalkErrMut ==
    /\ spc = "walk"
    /\ IF Len(book_batch) > 0
       THEN Dispatch(book_batch, "exit1")
       ELSE spc' = "exit1" /\ UNCHANGED <<dispatched, w>>
    /\ UNCHANGED <<probe, detector, dirExists, dirIdx, accepted, book_batch, seen_books, lock>>

\* l.85-88: the walker yields Err(e): process::exit(1)
WalkErr ==
    /\ spc = "walk"
    /\ spc' = "exit1"
    /\ UNCHANGED <<probe, detector, dirExists, dirIdx, accepted, book_batch, dispatched,
                   seen_books, lock, w>>

\* the for loop over self.dirs moves on, or scan_dirs returns Ok(())
NextDir ==
    IF dirIdx < NumDirs
    THEN spc' = "walk" /\ dirIdx' = dirIdx + 1
    ELSE spc' = "exit0" /\ dirIdx' = dirIdx

\* l.90-94: the walker of the root is exhausted
WalkEnd ==
    /\ spc = "walk"
    /\ IF Len(book_batch) > 0
       THEN /\ Dispatch(book_batch, "batch_rest")
            /\ UNCHANGED <<dirIdx, book_batch>>
       ELSE /\ NextDir
            /\ UNCHANGED <<dispatched, w, book_batch>>
    /\ UNCHANGED <<probe, detector, dirExists, accepted, seen_books, lock>>

\* faulty variant: process_batch returns as soon as one closure has returned
BatchFinishedMut == \E k \in BatchWorkers : w[k].pc = "done"

\* l.101-140: par_iter()...collect() returns when every closure has returned
BatchFinished == \A k \in BatchWorkers : w[k].pc = "done"

\* l.80-81 and l.92-93: process_batch returns, book_batch.clear()
BatchReturn ==
    /\ spc \in {"batch_full", "batch_rest"}
    /\ BatchFinished
    /\ book_batch' = <<>>
    /\ IF spc = "batch_full"
       THEN spc' = "walk" /\ dirIdx' = dirIdx
       ELSE NextDir
    /\ UNCHANGED <<probe, detector, dirExists, accepted, dispatched, seen_books, lock, w>>

\* a closure panicked: rayon lets the closures that are running finish, may or
\* may not start the others, and resumes the unwinding in the caller; nothing
\* catches it, so the process ends (exit status 101)
BatchPanic ==
    /\ spc \in {"batch_full", "batch_rest"}
    /\ \E k \in BatchWorkers : w[k].pc = "panicked"
    /\ \A k \in BatchWorkers : w[k].pc \notin InFlight
    /\ spc' = "panic"
    /\ UNCHANGED <<probe, detector, dirExists, dirIdx, accepted, book_batch, dispatched,
                   seen_books, lock, w>>

\* ----- parse_epub, Scanner::is_english, Scanner::better_dup -----
\* what the file system and the epub library answer for one path
UsedIds == {w[k].id : k \in Workers} \ {0}

\* a fingerprint already met, or the next one not met yet
IdChoices == 1 .. (IF Cardinality(UsedIds) < NumIds THEN Cardinality(UsedIds) + 1 ELSE NumIds)

FileInputs ==
    [fail : {"open", "size", "canon"}, id : {1}, filesize : {500000}, description : {{}}]
    \cup
    [fail : {"none"}, id : IdChoices, filesize : Sizes, description : Descriptions]

\* l.211-235: Err when EpubDoc::new, fs::metadata or canonicalize fails, else the
\* metadata with id = hash_md() and filesize = metadata.len()
parse_epub(f) ==
    IF f.fail = "open" THEN [ok |-> FALSE]
    ELSE IF f.fail = "size" THEN [ok |-> FALSE]
    ELSE IF f.fail = "canon" THEN [ok |-> FALSE]
    ELSE [ok |-> TRUE,
          bm |-> [id |-> f.id, filesize |-> f.filesize, description |-> f.description]]

\* what is_english meets: the language of the text it hands to the detector
\* (title + " " + description, or the sampled pages), whether the document opens
\* again, its page count, and whether get_current_str answers
ClassifyInputs ==
    [text : TextClasses, reopenOk : BOOLEAN, numPages : PageCounts, fetchOk : BOOLEAN]

\* lingua's detect_language_of: Some(English), Some(other) or None (nothing is
\* detected with confidence; always so for a text without letters)
detect_language_of(text) ==
    CASE text = "en" -> "English"
      [] text = "foreign" -> "Other"
      [] OTHER -> "None"

\* l.154-156 and l.181-183
LanguageVerdict(detected) ==
    CASE detected = "English" -> "true"
      [] detected = "Other" -> "false"
      [] OTHER -> "true"

\* l.200-210 three times, l.169-178: the sampled text; unwrap_or(("", "")) turns a
\* page that cannot be fetched into the empty string
SampledText(env) == IF env.fetchOk THEN env.text ELSE "empty"

\* l.148: bm.description.as_ref().is_some_and(|s| s.len() > 50)
MetadataTierMut(bm) == \E n \in bm.description : n >= 50

MetadataTier(bm) == \E n \in bm.description : n > 50

\* l.146-189, one call: result is "true", "false" or "panic" (EpubDoc::new(..)
\* .unwrap() on a document that does not open again, gen_range(0..0) on a document
\* without pages); reopened: EpubDoc::new(&bm.file) was called (l.161); fetched:
\* the calls of get_current_str (l.205); detected: what detect_language_of
\* returned ("-" when it was not called)
IsEnglishRun(det, bm, env) ==
    IF det
    THEN IF MetadataTier(bm)
         THEN LET d == detect_language_of(env.text)
              IN  [result |-> LanguageVerdict(d), reopened |-> FALSE, fetched |-> 0,
                   detected |-> d]
         ELSE IF ~env.reopenOk
              THEN [result |-> "panic", reopened |-> TRUE, fetched |-> 0, detected |-> "-"]
         ELSE IF env.numPages = 0
              THEN [result |-> "panic", reopened |-> TRUE, fetched |-> 0, detected |-> "-"]
         ELSE LET d == detect_language_of(SampledText(env))
              IN  [result |-> LanguageVerdict(d), reopened |-> TRUE, fetched |-> 3,
                   detected |-> d]
    ELSE [result |-> "true", reopened |-> FALSE, fetched |-> 0, detected |-> "-"]

\* faulty variant: the classifier is consulted whether or not it was asked for
is_englishMut(det, bm, env) == IsEnglishRun(TRUE, bm, env).result

\* l.146-189: the value is_english returns, or "panic"
is_english(det, bm, env) == IsEnglishRun(det, bm, env).result

\* faulty variant: the comparison is the wrong way round
better_dupMut(old, new) == new.size < old.size

\* l.191-197
better_dup(old, new) == new.size > old.size

\* HashMap::insert
Insert(m, key, bk) == [x \in DOMAIN m \cup {key} |-> IF x = key THEN bk ELSE m[x]]

new_bk(k) == [location |-> w[k].path, size |-> w[k].size]

\* ----- one closure of Scanner::process_batch -----
Running(k) ==
    /\ spc \in {"batch_full", "batch_rest"}
    /\ k \in BatchWorkers

\* l.103-105, l.127-136: what the match on parse_epub(book_path) and the test of
\* is_english(&bm) come to, for r what parse_epub returned and e what is_english
\* returned (not called when r is an Err)
ExtractResult(r, e) ==
    IF ~r.ok
    THEN [kind |-> "error", id |-> 0, size |-> 0]
    ELSE IF e = "true"
         THEN [kind |-> "english", id |-> r.bm.id, size |-> r.bm.filesize]
         ELSE [kind |-> IF e = "false" THEN "foreign" ELSE "panic", id |-> 0, size |-> 0]

\* every outcome of l.103-105 for one file; is_english reads the description and
\* the document of bm, not its id or filesize, so what it can return is computed
\* once for every description
ExtractResults ==
    LET verdicts == [d \in Descriptions |->
                       {is_english(detector, [id |-> 1, filesize |-> 500000, description |-> d], env)
                          : env \in ClassifyInputs}]
        Of(f) == LET r == parse_epub(f)
                 IN  IF r.ok
                     THEN {ExtractResult(r, e) : e \in verdicts[r.bm.description]}
                     ELSE {ExtractResult(r, "-")}
    IN  UNION {Of(f) : f \in FileInputs}

\* faulty variant: the Err arm logs to stderr only and prints no tag
ExtractErrorMut(k) ==
    w' = [w EXCEPT ![k].pc = "done", ![k].parsed = "err"]

\* l.132-136: parse_epub returned Err: eprintln, println!("ERROR:{}"), None
ExtractError(k) ==
    w' = [w EXCEPT ![k].pc = "done", ![k].parsed = "err",
                   ![k].out = <<"ERROR", w[k].path>>]

\* faulty variant: FRN is printed but the closure goes on into the dedup
ExtractForeignMut(k) ==
    w' = [w EXCEPT ![k].pc = "rd1", ![k].parsed = "ok", ![k].classified = TRUE,
                   ![k].out = <<"FRN", w[k].path>>, ![k].id = 1, ![k].size = 500000]

\* l.127-130: is_english returned false: println!("FRN:{}"), None
ExtractForeign(k) ==
    w' = [w EXCEPT ![k].pc = "done", ![k].parsed = "ok", ![k].classified = TRUE,
                   ![k].out = <<"FRN", w[k].path>>]

\* l.105-109: is_english returned true: new_bk is built, the dedup follows
ExtractEnglish(k, r) ==
    w' = [w EXCEPT ![k].pc = "rd1", ![k].parsed = "ok", ![k].classified = TRUE,
                   ![k].id = r.id, ![k].size = r.size]

\* l.161, l.201: is_english panicked, the closure unwinds
ExtractPanic(k) ==
    w' = [w EXCEPT ![k].pc = "panicked", ![k].parsed = "ok", ![k].classified = TRUE]

\* l.103-109, l.127-136: the closure up to the dedup
Extract(k) ==
    /\ Running(k)
    /\ w[k].pc = "start"
    /\ \E r \in ExtractResults :
         CASE r.kind = "error" -> ExtractError(k)
           [] r.kind = "foreign" -> ExtractForeign(k)
           [] r.kind = "english" -> ExtractEnglish(k, r)
           [] OTHER -> ExtractPanic(k)
    /\ UNCHANGED <<probe, detector, dirExists, spc, dirIdx, accepted, book_batch, dispatched,
                   seen_books, lock>>

\* seen_books.read(): granted while no writer holds the lock
AcquireRead(k) ==
    /\ Running(k)
    /\ w[k].pc \in {"rd1", "rd2"}
    /\ lock.writer = {}
    /\ lock' = [lock EXCEPT !.readers = @ \cup {k}]
    /\ w' = [w EXCEPT ![k].pc = IF w[k].pc = "rd1" THEN "chk" ELSE "get"]
    /\ UNCHANGED <<probe, detector, dirExists, spc, dirIdx, accepted, book_batch, dispatched,
                   seen_books>>

\* seen_books.write(): granted while nobody holds the lock
AcquireWrite(k) ==
    /\ Running(k)
    /\ w[k].pc \in {"wr1", "wr2"}
    /\ lock.writer = {} /\ lock.readers = {}
    /\ lock' = [lock EXCEPT !.writer = {k}]
    /\ w' = [w EXCEPT ![k].pc = IF w[k].pc = "wr1" THEN "ins1" ELSE "ins2"]
    /\ UNCHANGED <<probe, detector, dirExists, spc, dirIdx, accepted, book_batch, dispatched,
                   seen_books>>

\* faulty variant: the read guard lives as long as the branches of the if
CheckSeenMut(k) ==
    /\ Running(k)
    /\ w[k].pc = "chk"
    /\ lock' = lock
    /\ w' = [w EXCEPT ![k].pc = IF w[k].id \notin DOMAIN seen_books THEN "wr1" ELSE "rd2"]
    /\ UNCHANGED <<probe, detector, dirExists, spc, dirIdx, accepted, book_batch, dispatched,
                   seen_books>>

\* l.110: !contains_key(&bm.id); the read guard is a temporary of the condition
\* and is dropped before either branch runs
CheckSeen(k) ==
    /\ Running(k)
    /\ w[k].pc = "chk"
    /\ lock' = [lock EXCEPT !.readers = @ \ {k}]
    /\ w' = [w EXCEPT ![k].pc = IF w[k].id \notin DOMAIN seen_books THEN "wr1" ELSE "rd2"]
    /\ UNCHANGED <<probe, detector, dirExists, spc, dirIdx, accepted, book_batch, dispatched,
                   seen_books>>

\* l.111-112: insert(bm.id, new_bk); Some(bm)
InsertFirst(k) ==
    /\ Running(k)
    /\ w[k].pc = "ins1"
    /\ seen_books' = Insert(seen_books, w[k].id, new_bk(k))
    /\ lock' = [lock EXCEPT !.writer = {}]
    /\ w' = [w EXCEPT ![k].pc = "done"]
    /\ UNCHANGED <<probe, detector, dirExists, spc, dirIdx, accepted, book_batch, dispatched>>

\* l.116-123: old_bk = get(&bm.id).unwrap().clone(); drop; better_dup; println
ReadOld(k) ==
    /\ Running(k)
    /\ w[k].pc = "get"
    /\ lock' = [lock EXCEPT !.readers = @ \ {k}]
    /\ IF w[k].id \notin DOMAIN seen_books
       THEN w' = [w EXCEPT ![k].pc = "panicked"]
       ELSE LET old_bk == seen_books[w[k].id]
            IN  IF better_dup(old_bk, new_bk(k))
                THEN w' = [w EXCEPT ![k].pc = "wr2", ![k].out = <<"DUP", old_bk.location>>]
                ELSE w' = [w EXCEPT ![k].pc = "done", ![k].out = <<"DUP", w[k].path>>]
    /\ UNCHANGED <<probe, detector, dirExists, spc, dirIdx, accepted, book_batch, dispatched,
                   seen_books>>

\* l.120: insert(bm.id, new_bk); l.125: None
InsertBetter(k) ==
    /\ Running(k)
    /\ w[k].pc = "ins2"
    /\ seen_books' = Insert(seen_books, w[k].id, new_bk(k))
    /\ lock' = [lock EXCEPT !.writer = {}]
    /\ w' = [w EXCEPT ![k].pc = "done"]
    /\ UNCHANGED <<probe, detector, dirExists, spc, dirIdx, accepted, book_batch, dispatched>>

Next ==
    \/ Validate
    \/ WalkFile
    \/ WalkOther
    \/ WalkErr
    \/ WalkEnd
    \/ BatchReturn
    \/ BatchPanic
    \/ \E k \in Workers : Extract(k)
    \/ \E k \in Workers : AcquireRead(k)
    \/ \E k \in Workers : CheckSeen(k)
    \/ \E k \in Workers : AcquireWrite(k)
    \/ \E k \in Workers : InsertFirst(k)
    \/ \E k \in Workers : ReadOld(k)
    \/ \E k \in Workers : InsertBetter(k)

Spec == Init /\ [][Next]_vars

\* ----- scheduling -----
\* one step of closure k, whichever it is
WorkerStep(k) ==
    \/ Extract(k)
    \/ AcquireRead(k)
    \/ CheckSeen(k)
    \/ AcquireWrite(k)
    \/ InsertFirst(k)
    \/ ReadOld(k)
    \/ InsertBetter(k)

\* l.101-140: rayon runs every closure of the par_iter on a pool thread and the
\* threads keep running; a lock that stays free is granted to a thread waiting
\* for it; collect() returns, or resumes the unwinding, once the closures ended
FairSpec ==
    /\ Spec
    /\ \A k \in 1..MaxFiles : WF_vars(WorkerStep(k))
    /\ WF_vars(BatchReturn)
    /\ WF_vars(BatchPanic)

\* ----- Scanner::is_english applied on its own -----
\* the scanner before scan_dirs is called
ScanNotStarted ==
    /\ dirExists = [d \in 1..NumDirs |-> TRUE]
    /\ spc = "validate"
    /\ dirIdx = 0
    /\ accepted = <<>>
    /\ book_batch = <<>>
    /\ dispatched = <<>>
    /\ seen_books = <<>>
    /\ lock = [readers |-> {}, writer |-> {}]
    /\ w = <<>>

scanVars == <<dirExists, spc, dirIdx, accepted, book_batch, dispatched, seen_books, lock, w>>

\* the records parse_epub can return (l.223-231), as far as is_english reads them
BookMetadatas == [id : {1}, filesize : Sizes, description : Descriptions]

NoRun == [result |-> "-", reopened |-> FALSE, fetched |-> 0, detected |-> "-"]

InitClassify ==
    /\ detector \in BOOLEAN
    /\ ScanNotStarted
    /\ probe \in [fn : {"is_english"}, bm : BookMetadatas, env : ClassifyInputs,
                  called : {FALSE}, run : {NoRun}]

\* l.105: self.is_english(&bm)
Classify ==
    /\ ~probe.called
    /\ probe' = [probe EXCEPT !.called = TRUE,
                              !.run = [IsEnglishRun(detector, probe.bm, probe.env)
                                         EXCEPT !.result = is_english(detector, probe.bm, probe.env)]]
    /\ UNCHANGED <<detector, scanVars>>

NextClassify == Classify

SpecClassify == InitClassify /\ [][NextClassify]_vars

\* ----- unmangle_creator applied on its own -----
\* a String is the sequence of its characters
Chars == {"F", "G", " ", "\t", ","}

Creators == UNION {[1..n -> Chars] : n \in 0..MaxNameLen}

\* char::is_whitespace
IsWhitespace(c) == c \in {" ", "\t"}

\* str::trim_start, str::trim_end, str::trim
RECURSIVE trim_start(_)
trim_start(s) ==
    IF s # <<>> /\ IsWhitespace(Head(s)) THEN trim_start(Tail(s)) ELSE s

RECURSIVE trim_end(_)
trim_end(s) ==
    IF s # <<>> /\ IsWhitespace(s[Len(s)]) THEN trim_end(SubSeq(s, 1, Len(s) - 1)) ELSE s

trim(s) == trim_end(trim_start(s))

\* the length of the longest prefix of s without a character of the set stop
RECURSIVE PrefixLen(_, _)
PrefixLen(s, stop) ==
    IF s = <<>> \/ Head(s) \in stop THEN 0 ELSE 1 + PrefixLen(Tail(s), stop)

\* str::split_whitespace: the maximal non-empty runs of non-whitespace
RECURSIVE split_whitespace(_)
split_whitespace(s) ==
    LET t == trim_start(s)
        n == PrefixLen(t, {" ", "\t"})
    IN  IF t = <<>> THEN <<>>
        ELSE <<SubSeq(t, 1, n)>> \o split_whitespace(SubSeq(t, n + 1, Len(t)))

\* Itertools::join
RECURSIVE join(_, _)
join(words, sep) ==
    IF words = <<>> THEN <<>>
    ELSE IF Len(words) = 1 THEN words[1]
    ELSE words[1] \o sep \o join(Tail(words), sep)

\* str::matches(c).count()
matches_count(s, c) == Cardinality({i \in 1..Len(s) : s[i] = c})

\* str::split(c): one part more than there are separators, empty parts kept
RECURSIVE split(_, _)
split(s, c) ==
    LET n == PrefixLen(s, {c})
    IN  IF n = Len(s) THEN <<s>>
        ELSE <<SubSeq(s, 1, n)>> \o split(SubSeq(s, n + 2, Len(s)), c)

\* l.245-252
unmangle_creator(creator) ==
    LET unspaced_creator == join(split_whitespace(creator), <<" ">>)
    IN  IF matches_count(unspaced_creator, ",") = 1
        THEN LET parts == split(unspaced_creator, ",")
             IN  trim(parts[2]) \o <<" ">> \o trim(parts[1])
        ELSE unspaced_creator

InitCreator ==
    /\ detector = FALSE
    /\ ScanNotStarted
    /\ probe \in [fn : {"unmangle_creator"}, creator : Creators, times : {0},
                  once : {<<>>}, twice : {<<>>}]

\* l.228: get_first_fd("creator", ..).map(unmangle_creator)
Unmangle ==
    /\ probe.times = 0
    /\ probe' = [probe EXCEPT !.times = 1, !.once = unmangle_creator(probe.creator)]
    /\ UNCHANGED <<detector, scanVars>>

\* the normalised creator is normalised again
UnmangleAgain ==
    /\ probe.times = 1
    /\ probe' = [probe EXCEPT !.times = 2, !.twice = unmangle_creator(probe.once)]
    /\ UNCHANGED <<detector, scanVars>>

NextCreator ==
    \/ Unmangle
    \/ UnmangleAgain

SpecCreator == InitCreator /\ [][NextCreator]_vars

\* ----- the walk of one root (l.67-78) on its own -----
\* names and paths are sequences of characters
Epub == <<".", "e", "p", "u", "b">>

EntryNames ==
    { <<"a">> \o Epub,                    \* a.epub
      <<".", "a">> \o Epub,               \* .a.epub
      <<"a", ".", "E", "P", "U", "B">>,   \* a.EPUB
      <<"a">> \o Epub \o <<"x">>,         \* a.epubx
      <<"d">>,                            \* d
      <<".", "d">> }                      \* .d

\* the roots as given on the command line; "." is the default of Cli::dir
RootPaths == { <<".">>, <<"d">>, <<".", "d">> }

\* the tree under the root, in the order WalkDir yields it (a directory before
\* its contents): the depth of every entry; entry 1 is the root itself
TreeDepths == <<0, 1, 2, 1>>

\* the entries that have contents are directories
MustBeDir(i) == i < Len(TreeDepths) /\ TreeDepths[i + 1] > TreeDepths[i]

Trees ==
    { t \in [1..Len(TreeDepths) -> [name : EntryNames \cup RootPaths, kind : {"file", "dir"}]] :
        /\ t[1].name \in RootPaths
        /\ \A i \in 2..Len(TreeDepths) : t[i].name \in EntryNames
        /\ \A i \in 1..Len(TreeDepths) : MustBeDir(i) => t[i].kind = "dir" }

\* str::starts_with, str::ends_with
starts_with(s, pre) == Len(s) >= Len(pre) /\ SubSeq(s, 1, Len(pre)) = pre

ends_with(s, suf) == Len(s) >= Len(suf) /\ SubSeq(s, Len(s) - Len(suf) + 1, Len(s)) = suf

\* the directory that holds entry i (i > 1)
Parent(i) == MaxOf({j \in 1..(i - 1) : TreeDepths[j] = TreeDepths[i] - 1})

\* DirEntry::path(): the root as given, then the names down to the entry
RECURSIVE EntryPath(_, _)
EntryPath(t, i) ==
    IF i = 1 THEN t[1].name ELSE EntryPath(t, Parent(i)) \o <<"/">> \o t[i].name

\* DirEntry::file_name(): the last component of the path; the path of the root
\* entry is the root as given, and for a root that has no last component ("."
\* and "..") walkdir returns the whole path
file_name(t, i) == t[i].name

\* l.27-33
is_hidden(t, i) == starts_with(file_name(t, i), <<".">>)

\* IntoIter::skip_current_dir: the first entry after i that is not beneath it
NextNotBeneath(i) ==
    LET later == {j \in (i + 1)..Len(TreeDepths) : TreeDepths[j] <= TreeDepths[i]}
    IN  IF later = {} THEN Len(TreeDepths) + 1 ELSE CHOOSE j \in later : \A x \in later : j <= x

InitWalk ==
    /\ detector = FALSE
    /\ ScanNotStarted
    /\ probe \in [fn : {"walk"}, tree : Trees, pos : {1}, batch : {<<>>}]

\* l.70: filter_entry(|e| !is_hidden(e)) drops the entry, the root entry
\* included, and does not descend into it when it is a directory
FilterOut ==
    /\ probe.pos <= Len(TreeDepths)
    /\ is_hidden(probe.tree, probe.pos)
    /\ probe' = [probe EXCEPT !.pos = IF probe.tree[probe.pos].kind = "dir"
                                      THEN NextNotBeneath(probe.pos)
                                      ELSE probe.pos + 1]
    /\ UNCHANGED <<detector, scanVars>>

\* l.73-78: the entry is yielded; it is pushed on book_batch when its path ends
\* with ".epub" and it is a regular file
Visit ==
    /\ probe.pos <= Len(TreeDepths)
    /\ ~is_hidden(probe.tree, probe.pos)
    /\ probe' = [probe EXCEPT
                   !.pos = probe.pos + 1,
                   !.batch = IF /\ ends_with(EntryPath(probe.tree, probe.pos), Epub)
                                /\ probe.tree[probe.pos].kind = "file"
                             THEN Append(probe.batch, probe.pos)
                             ELSE probe.batch]
    /\ UNCHANGED <<detector, scanVars>>

NextWalk ==
    \/ FilterOut
    \/ Visit

SpecWalk == InitWalk /\ [][NextWalk]_vars

\* ----- what the claims speak of -----
Ids == 1..NumIds

\* the files whose metadata was extracted and that passed is_english, by fingerprint
Group(f) == {k \in Workers : w[k].id = f}

AllDone == Workers /= {} /\ \A k \in Workers : w[k].pc = "done"

Tagged(k, tag) == w[k].out /= NoOut /\ w[k].out[1] = tag

\* the workers whose printed line names path p
LinesNaming(p) == {k \in Workers : w[k].out /= NoOut /\ w[k].out[2] = p}

DistinctSizes(S) == \A a, b \in S : a /= b => w[a].size /= w[b].size

\* C1: files of one fingerprint with pairwise distinct sizes, any interleaving:
\* once every worker has finished, the size stored for the fingerprint is the
\* largest of their sizes (no update is lost).
C1_LargestSizeRetained ==
    AllDone =>
      \A f \in Ids :
        (Group(f) /= {} /\ DistinctSizes(Group(f))) =>
          /\ f \in DOMAIN seen_books
          /\ seen_books[f].size = MaxOf({w[k].size : k \in Group(f)})

\* C2: n accepted files of one fingerprint, all processed: exactly n-1 DUP lines
\* were printed for them and one file is retained; for two files of 500,000 and
\* 700,000 bytes the one DUP line names the 500,000-byte file.
C2_OneRetainedRestDup ==
    AllDone =>
      \A f \in Ids :
        Group(f) /= {} =>
          /\ Cardinality({k \in Group(f) : Tagged(k, "DUP")}) = Cardinality(Group(f)) - 1
          /\ f \in DOMAIN seen_books
          /\ \E k \in Group(f) : seen_books[f].location = w[k].path
          /\ \A a, b \in Group(f) :
               (Group(f) = {a, b} /\ w[a].size = 500000 /\ w[b].size = 700000) =>
                 {w[k].out : k \in {a, b}} \ {NoOut} = {<<"DUP", w[a].path>>}

\* C3: an entry of seen_books is never removed and is replaced only by a record
\* strictly larger than the one stored at that moment, so the stored size never
\* decreases.
C3_StoredSizeNeverDecreases ==
    [][\A f \in DOMAIN seen_books :
         /\ f \in DOMAIN seen_books'
         /\ seen_books'[f].size >= seen_books[f].size
         /\ seen_books'[f] /= seen_books[f] => seen_books'[f].size > seen_books[f].size]_vars

\* C4: every dispatched path gets one outcome and no path is named in more than
\* one printed tag line; no location is reported as DUP twice.
C4_NoPathTaggedTwice ==
    \A k \in Workers : Cardinality(LinesNaming(w[k].path)) <= 1

\* C5: when parse_epub fails for a path, that path gets exactly one ERROR line,
\* is_english is not called for it, seen_books holds nothing of it, and the
\* failure stops nothing: once process_batch has returned every file of the
\* batch has its outcome, and only a panicking closure ends the scan early.
C5_ParseFailureStaysLocal ==
    \A k \in Workers :
      w[k].parsed = "err" =>
        /\ w[k].pc = "done"
        /\ w[k].out = <<"ERROR", w[k].path>>
        /\ Cardinality({j \in LinesNaming(w[k].path) : Tagged(j, "ERROR")}) = 1
        /\ ~w[k].classified
        /\ w[k].id = 0
        /\ \A f \in DOMAIN seen_books : seen_books[f].location /= w[k].path
        /\ spc \in {"walk", "exit0", "exit1"} => \A j \in Workers : w[j].pc = "done"
        /\ spc = "panic" => \E j \in Workers : w[j].pc = "panicked"

\* a parse failure beside a file of the same batch that went through the dedup
C5_Witness ==
    /\ spc = "exit0"
    /\ \E k, j \in Workers :
         /\ w[k].batch = w[j].batch
         /\ w[k].parsed = "err"
         /\ w[j].id /= 0 /\ w[j].pc = "done"
         /\ \E f \in DOMAIN seen_books : seen_books[f].location = w[j].path

\* C6: a content-sampling failure (the document does not open again, it has no
\* pages, a page cannot be fetched) is a per-file error: the file is tagged ERROR
\* and the scan goes on; no closure unwinds and the scan is never aborted by it.
C6_SamplingFailureRecoverable ==
    /\ spc /= "panic"
    /\ \A k \in Workers : w[k].pc /= "panicked"

\* C7: two files of one fingerprint and equal size, any interleaving: one of
\* them is retained in seen_books and the other one is reported with a DUP line;
\* when one was processed in an earlier batch than the other, it is the retained one.
C7_TieKeepsOneReportsOther ==
    AllDone =>
      \A f \in Ids : \A a, b \in Group(f) :
        (a /= b /\ Group(f) = {a, b} /\ w[a].size = w[b].size) =>
          \E kept, dup \in {a, b} :
            /\ kept /= dup
            /\ f \in DOMAIN seen_books
            /\ seen_books[f].location = w[kept].path
            /\ w[kept].out = NoOut
            /\ w[dup].out = <<"DUP", w[dup].path>>
            /\ w[a].batch < w[b].batch => kept = a

\* C8: batches run strictly one after another: while a file of a batch has not
\* reached its outcome no later batch exists, and the walk does not advance
\* (no path is accepted, no root is left) while a closure is unfinished.
C8_BatchesSequential ==
    /\ [](\A k, j \in Workers : w[k].batch < w[j].batch => w[k].pc = "done")
    /\ [][(\E k \in Workers : w[k].pc /= "done") =>
            (accepted' = accepted /\ dirIdx' = dirIdx /\ dispatched' = dispatched)]_vars

\* a closure of the second batch at work after the first batch
C8_Witness ==
    \E k, j \in Workers : w[k].batch = 1 /\ w[j].batch = 2 /\ w[j].pc \in InFlight

RootOf(p) == accepted[CHOOSE i \in DOMAIN accepted : accepted[i].path = p].root

\* C9: the dispatched batches partition the accepted paths in traversal order;
\* every batch holds 1..BatchCap paths, a batch is dispatched as soon as it holds
\* BatchCap paths, the remainder is dispatched at the end of each root, and no
\* batch holds paths of two roots.
C9_BatchesPartitionAccepted ==
    /\ Concat(dispatched) \o (IF spc \in {"walk", "exit1"} THEN Paths(book_batch) ELSE <<>>)
         = Paths(accepted)
    /\ spc = "exit0" => Concat(dispatched) = Paths(accepted)
    /\ \A b \in DOMAIN dispatched :
         /\ Len(dispatched[b]) >= 1
         /\ Len(dispatched[b]) <= BatchCap
         /\ \A i, j \in DOMAIN dispatched[b] :
              RootOf(dispatched[b][i]) = RootOf(dispatched[b][j])
    /\ spc = "walk" =>
         /\ Len(book_batch) < BatchCap
         /\ \A i \in DOMAIN book_batch : book_batch[i].root = dirIdx
    /\ \A i, j \in DOMAIN accepted : i /= j => accepted[i].path /= accepted[j].path

\* a finished scan with a full batch and a remainder batch
C9_Witness ==
    /\ spc = "exit0"
    /\ \E a, b \in DOMAIN dispatched :
         Len(dispatched[a]) = BatchCap /\ Len(dispatched[b]) < BatchCap

\* C10: a walker error ends the scan with status 1: the step dispatches nothing
\* (the partly filled batch included) and takes back no printed line; the
\* batches dispatched before it had all completed.
C10_TraversalErrorStopsScan ==
    /\ [](spc = "exit1" =>
            /\ \A k \in Workers : w[k].pc = "done"
            /\ Concat(dispatched) \o Paths(book_batch) = Paths(accepted))
    /\ [][spc' = "exit1" => (dispatched' = dispatched /\ w' = w)]_vars

\* the walker fails with a partly filled batch, after a batch that printed a tag
C10_Witness ==
    /\ spc = "exit1"
    /\ book_batch /= <<>>
    /\ \E k \in Workers : w[k].out /= NoOut

\* C11: if any root does not exist, whatever its position, scan_dirs ends with
\* the missing-root status 3 (not the traversal-error status 1) before any root
\* is walked and before any file is extracted, classified or tagged.
C11_MissingRootStopsBeforeScan ==
    /\ (\E d \in 1..NumDirs : ~dirExists[d]) =>
         /\ spc \in {"validate", "exit3"}
         /\ dirIdx = 0
         /\ accepted = <<>> /\ dispatched = <<>> /\ w = <<>> /\ seen_books = <<>>
    /\ spc = "exit3" => \E d \in 1..NumDirs : ~dirExists[d]

\* the scan ended with status 3 on a missing last root, the first root existing
C11_Witness ==
    /\ spc = "exit3"
    /\ dirExists[1]
    /\ ~dirExists[NumDirs]


\* C12: with a classifier, is_english decides on the metadata alone, without
\* opening the document again and without fetching a page, exactly when the
\* description is present and longer than 50; an absent description or one of
\* length <= 50 goes to the content sample.  In both tiers a detected English and
\* an inconclusive detection give true, any other detected language gives false.
C12_TierByDescriptionLength ==
    (probe.fn = "is_english" /\ probe.called /\ detector) =>
        LET d == probe.bm.description
            long == d # {} /\ \A n \in d : n > 50
            r == probe.run
        IN  /\ long <=> (~r.reopened /\ r.fetched = 0)
            /\ ~long => r.reopened
            /\ r.detected \in {"English", "None"} => r.result = "true"
            /\ r.detected = "Other" => r.result = "false"
            /\ r.result \in {"true", "false"} => r.detected # "-"

\* a description of exactly 50 was sent to the content sample, which found
\* another language
C12_Witness ==
    /\ probe.fn = "is_english" /\ probe.called /\ detector
    /\ probe.bm.description = {50}
    /\ probe.run.reopened /\ probe.run.fetched = 3
    /\ probe.run.result = "false"


\* C13: without a classifier (detector is None) is_english returns true for
\* every record and samples no content (is_english reads nothing of the scanner
\* but detector, which never changes: stated for the scanner as constructed), so
\* no FRN line is ever printed during the scan and no closure panics.
C13_NoClassifierNoForeign ==
    ~detector =>
        /\ spc = "validate" =>
             \A bm \in BookMetadatas, env \in ClassifyInputs :
                 /\ is_english(detector, bm, env) = "true"
                 /\ ~IsEnglishRun(detector, bm, env).reopened
                 /\ IsEnglishRun(detector, bm, env).fetched = 0
        /\ \A k \in Workers :
             /\ ~Tagged(k, "FRN")
             /\ w[k].pc # "panicked"

\* without a classifier, two files went through is_english and the dedup
C13_Witness ==
    /\ ~detector
    /\ \E j, k \in Workers :
         /\ j # k
         /\ w[j].classified /\ w[j].pc = "done"
         /\ w[k].classified /\ w[k].pc = "done"


\* C14: unmangle_creator is idempotent on every string of letters, spaces, tabs
\* and commas, strings with an empty part before or after the single comma
\* included; an input with exactly one comma, "Family, Given", becomes
\* "Given Family"; an input with no comma or with two or more only has its runs
\* of whitespace collapsed.
C14_UnmangleIdempotent ==
    (probe.fn = "unmangle_creator" /\ probe.times = 2) =>
        LET c == probe.creator
            Collapse(x) == join(split_whitespace(x), <<" ">>)
            i == CHOOSE i \in 1..Len(c) : c[i] = ","
        IN  /\ probe.twice = probe.once
            /\ matches_count(c, ",") = 1 =>
                 probe.once = Collapse(SubSeq(c, i + 1, Len(c))) \o <<" ">>
                                \o Collapse(SubSeq(c, 1, i - 1))
            /\ matches_count(c, ",") # 1 => probe.once = Collapse(c)


\* C15: a worker that saw a fingerprint absent under the read lock inserts, once
\* it holds the write lock, only if the fingerprint is still absent: a
\* first-sighting insert never overwrites an entry that is in seen_books.
C15_FirstInsertNeverOverwrites ==
    [][\A k \in Workers :
         (w[k].pc = "ins1" /\ w'[k].pc = "done") =>
             /\ w[k].id \notin DOMAIN seen_books
             /\ seen_books' = Insert(seen_books, w[k].id, new_bk(k))]_vars


\* C16: for a fingerprint that is present, a new file strictly larger than the
\* retained entry replaces it, the entry becoming (new location, new size), and
\* its DUP line names the location that was in seen_books immediately before
\* that replacement; otherwise the DUP line names the new file itself and this
\* worker leaves seen_books unchanged.
C16_ReplacementNamesRetained ==
    [][\A k \in Workers :
         /\ (w[k].pc = "ins2" /\ w'[k].pc = "done") =>
              /\ w[k].id \in DOMAIN seen_books
              /\ w[k].size > seen_books[w[k].id].size
              /\ w[k].out = <<"DUP", seen_books[w[k].id].location>>
              /\ seen_books' = Insert(seen_books, w[k].id, new_bk(k))
         /\ (w[k].pc = "get" /\ w'[k].pc = "done") =>
              /\ w[k].id \in DOMAIN seen_books
              /\ ~(w[k].size > seen_books[w[k].id].size)
              /\ w'[k].out = <<"DUP", w[k].path>>
              /\ seen_books' = seen_books]_vars


\* C17: in a fingerprint group (its files have distinct paths), whatever the
\* interleaving, no DUP line names a file that is strictly the largest of the
\* group, and at least one file of maximal size in the group is named by no
\* DUP line.
C17_LargestNeverReportedDup ==
    \A f \in Ids :
        LET G == Group(f)
            NamedDup(k) == \E j \in Workers : w[j].out = <<"DUP", w[k].path>>
        IN  G # {} =>
              /\ \A k \in G :
                   (\A j \in G \ {k} : w[j].size < w[k].size) => ~NamedDup(k)
              /\ \E k \in G :
                   /\ w[k].size = MaxOf({w[j].size : j \in G})
                   /\ ~NamedDup(k)

\* a group of three files, one strictly the largest, all resolved, the two
\* smaller ones reported
C17_Witness ==
    /\ AllDone
    /\ \E f \in Ids :
         /\ Cardinality(Group(f)) = 3
         /\ \E k \in Group(f) :
              /\ \A j \in Group(f) \ {k} : w[j].size < w[k].size
              /\ \A j \in Group(f) \ {k} :
                   \E i \in LinesNaming(w[j].path) : Tagged(i, "DUP")


\* C18: the dedup always ends in a defined outcome.  No closure asks for the
\* write lock while it holds a read guard, a fingerprint just seen present is
\* still found by the lookup, and under fair scheduling every closure that
\* is in the dedup gets out of it (its pc only moves forward, and no lookup
\* panics), so that every call of process_batch ends: it returns, unless a
\* closure panicked before the dedup, in is_english.
InBatch == spc \in {"batch_full", "batch_rest"}

C18_DedupTerminates ==
    /\ [](/\ \A k \in lock.readers : w[k].pc \in {"chk", "get"}
          /\ \A k \in lock.writer : w[k].pc \in {"ins1", "ins2"}
          /\ lock.writer # {} => lock.readers = {} /\ Cardinality(lock.writer) = 1
          /\ \A k \in Workers :
               /\ w[k].pc = "get" => w[k].id \in DOMAIN seen_books
               /\ w[k].pc = "panicked" => w[k].id = 0
          /\ spc = "panic" => \E k \in BatchWorkers : w[k].pc = "panicked")
    /\ \A k \in 1..MaxFiles : []<>~(k \in Workers /\ w[k].pc \in InFlight)
    /\ []<>~InBatch

\* the closures of a full batch, all with the same fingerprint, contended for
\* seen_books, each got its locks, and the batch returned
C18_Witness ==
    /\ ~InBatch
    /\ \E b \in 1..Len(dispatched) :
         /\ Len(dispatched[b]) = BatchCap
         /\ \A k \in Workers :
              w[k].batch = b => w[k].pc = "done" /\ w[k].id = 1
         /\ \E k \in Workers : w[k].batch = b /\ Tagged(k, "DUP")


\* C19: is_english runs before the dedup and gates it: a file tagged FRN or
\* ERROR never enters the dedup, is never inserted in seen_books, is named by no
\* line but its own (so by no DUP line), and its own line names no other file;
\* every closure in the dedup has passed is_english.
C19_ClassificationGatesDedup ==
    \A k \in Workers :
        /\ (Tagged(k, "FRN") \/ Tagged(k, "ERROR")) =>
             /\ w[k].pc = "done"
             /\ w[k].id = 0
             /\ k \notin lock.readers \cup lock.writer
             /\ \A f \in DOMAIN seen_books : seen_books[f].location # w[k].path
             /\ \A j \in Workers \ {k} : w[j].out = NoOut \/ w[j].out[2] # w[k].path
             /\ w[k].out[2] = w[k].path
        /\ Tagged(k, "FRN") => w[k].classified /\ w[k].parsed = "ok"
        /\ Tagged(k, "ERROR") => ~w[k].classified /\ w[k].parsed = "err"
        /\ (w[k].pc \in InFlight \/ Tagged(k, "DUP")) => w[k].classified /\ w[k].id # 0

\* one file tagged FRN, one tagged ERROR and one retained, all closures ended
C19_Witness ==
    /\ AllDone
    /\ \E i, j, k \in Workers :
         /\ Tagged(i, "FRN")
         /\ Tagged(j, "ERROR")
         /\ \E f \in DOMAIN seen_books : seen_books[f].location = w[k].path


\* C20: whatever the name of the root, "." included, the paths dispatched from
\* it are exactly the regular files under it whose name ends with ".epub"
\* (case-sensitive) and that have no name beginning with "." on the way from
\* the root (excluded) down to the file (included); nothing beneath a hidden
\* directory is dispatched.
RECURSIVE Below(_)
Below(i) == IF i = 1 THEN {} ELSE {i} \cup Below(Parent(i))

C20_DispatchedIffVisibleEpub ==
    (probe.fn = "walk" /\ probe.pos > Len(TreeDepths)) =>
        LET t == probe.tree
            Dispatched == {probe.batch[n] : n \in 1..Len(probe.batch)}
        IN  \A i \in 2..Len(TreeDepths) :
                i \in Dispatched <=>
                    /\ t[i].kind = "file"
                    /\ Len(t[i].name) >= 5
                    /\ SubSeq(t[i].name, Len(t[i].name) - 4, Len(t[i].name)) = Epub
                    /\ \A j \in Below(i) : t[j].name[1] # "."

=============================================================================
